---- MODULE Spec2Model ----
(***************************************************************************)
(* HRIntelligenceBrain (src/hr_intelligence_brain.py): the skill-weight    *)
(* table, predict_success, reward_log, _calculate_reward, policy_update    *)
(* and the load/save of data/rl_weights.json.                              *)
(*                                                                         *)
(* Representation.                                                         *)
(*  - A Python str is a sequence of one-character strings, so that lower,  *)
(*    strip, split, `in` and len are computed and not assumed.             *)
(*  - A float is a fixed-point integer: weights and rewards in millionths  *)
(*    (1.2 is 1200000), a returned probability in thousandths, as          *)
(*    round(p, 3) leaves it.  A product with 0.999 is rounded to the       *)
(*    nearest millionth, where the float is rounded to the nearest double. *)
(*  - A weight table (dict) is a function from keys to weights.            *)
(*  - The file holds the JSON text of a table: every key with the decimal  *)
(*    digits json.dump writes for its weight, which json.load parses.      *)
(*                                                                         *)
(* Specifications.                                                         *)
(*  - Spec: one client, lists of skills, every write succeeding.           *)
(*  - SpecFaulty: one client that passes on malformed fields, on a file    *)
(*    system whose writes may fail.                                        *)
(*  - SpecThreads: two reward_log calls interleaved on the one instance.   *)
(*  - SpecOverlap: a predict_success call interleaved with a reward_log.   *)
(*  - SpecReward: _calculate_reward alone.                                 *)
(*  - SpecRepeat: the same positive feedback repeated, with fairness.      *)
(*  - SpecGrowth: positive feedback on ever new skills, with fairness.     *)
(***************************************************************************)
EXTENDS Integers, Sequences, FiniteSets, TLC

VARIABLES
    weights,   \* self.weights of the scorer instance
    file,      \* content of data/rl_weights.json
    last,      \* record of the last call made on the instance, and its result
    calls,     \* number of calls made so far
    threads    \* where each thread of the pool stands in reward_log

vars == <<weights, file, last, calls, threads>>

\* Number of calls a behaviour makes on the instance.
MaxCalls == 2

-----------------------------------------------------------------------------
(* Python strings *)

\* A list element that is not a str (the integer 123): it has no lower().
NonStr == <<"<int 123>">>

IsStr(s) == s /= NonStr

LowerChar ==
    "A" :> "a" @@ "B" :> "b" @@ "C" :> "c" @@ "D" :> "d" @@ "E" :> "e" @@
    "F" :> "f" @@ "G" :> "g" @@ "H" :> "h" @@ "I" :> "i" @@ "J" :> "j" @@
    "K" :> "k" @@ "L" :> "l" @@ "M" :> "m" @@ "N" :> "n" @@ "O" :> "o" @@
    "P" :> "p" @@ "Q" :> "q" @@ "R" :> "r" @@ "S" :> "s" @@ "T" :> "t" @@
    "U" :> "u" @@ "V" :> "v" @@ "W" :> "w" @@ "X" :> "x" @@ "Y" :> "y" @@
    "Z" :> "z"

\* str.lower()
Lower(s) ==
    [i \in 1..Len(s) |-> IF s[i] \in DOMAIN LowerChar THEN LowerChar[s[i]] ELSE s[i]]

\* The element of a one-element set: { f(x) : x \in {e} } evaluates e once
\* and names its value x, the way an assignment to a local variable does.
The(S) == CHOOSE x \in S : TRUE

IsSpace(c) == c = " " \/ c = "\t" \/ c = "\n"

\* str.strip(): drop the leading and the trailing whitespace
Strip(s) ==
    LET keep == {i \in 1..Len(s) : ~IsSpace(s[i])}
    IN  IF keep = {} THEN <<>>
        ELSE LET lo == CHOOSE i \in keep : \A j \in keep : i <= j
                 hi == CHOOSE i \in keep : \A j \in keep : j <= i
             IN  SubSeq(s, lo, hi)

\* a in b, for two str: a occurs in b as a contiguous run ("" occurs in any str)
IsSubstring(a, b) ==
    \E i \in 0..(Len(b) - Len(a)) : \A j \in 1..Len(a) : b[i + j] = a[j]

\* set(s.split()): the maximal runs of non-whitespace characters of s
Words(s) ==
    LET starts == {i \in 1..Len(s) : ~IsSpace(s[i]) /\ (i = 1 \/ IsSpace(s[i - 1]))}
        ends == {j \in 1..Len(s) : ~IsSpace(s[j]) /\ (j = Len(s) \/ IsSpace(s[j + 1]))}
    IN  {SubSeq(s, i, CHOOSE j \in ends : j >= i /\ \A m \in ends : m >= i => j <= m) :
            i \in starts}

Abs(n) == IF n < 0 THEN -n ELSE n

Max(a, b) == IF a >= b THEN a ELSE b

Min(a, b) == IF a <= b THEN a ELSE b


RECURSIVE SumOver(_, _)
\* sum(w.values()) restricted to the keys in S
SumOver(w, S) ==
    IF S = {} THEN 0
    ELSE LET k == CHOOSE x \in S : TRUE IN w[k] + SumOver(w, S \ {k})

-----------------------------------------------------------------------------
(* Keywords, tables and the backing file *)

k_python == <<"p","y","t","h","o","n">>
k_java == <<"j","a","v","a">>
k_javascript == <<"j","a","v","a","s","c","r","i","p","t">>
k_react == <<"r","e","a","c","t">>
k_ai == <<"a","i">>
k_machine_learning == <<"m","a","c","h","i","n","e"," ","l","e","a","r","n","i","n","g">>
k_ml == <<"m","l">>
k_data_science == <<"d","a","t","a"," ","s","c","i","e","n","c","e">>
k_fastapi == <<"f","a","s","t","a","p","i">>
k_django == <<"d","j","a","n","g","o">>
k_flask == <<"f","l","a","s","k">>
k_nodejs == <<"n","o","d","e","j","s">>
k_communication == <<"c","o","m","m","u","n","i","c","a","t","i","o","n">>
k_teamwork == <<"t","e","a","m","w","o","r","k">>
k_leadership == <<"l","e","a","d","e","r","s","h","i","p">>
k_sql == <<"s","q","l">>
k_database == <<"d","a","t","a","b","a","s","e">>
k_mongodb == <<"m","o","n","g","o","d","b">>
k_postgresql == <<"p","o","s","t","g","r","e","s","q","l">>

\* the table __init__ installs when the loaded table is empty
DefaultWeights ==
    k_python :> 1200000 @@ k_java :> 1100000 @@ k_javascript :> 1000000 @@
    k_react :> 1000000 @@ k_ai :> 1300000 @@ k_machine_learning :> 1300000 @@
    k_ml :> 1300000 @@ k_data_science :> 1200000 @@ k_fastapi :> 1100000 @@
    k_django :> 1000000 @@ k_flask :> 1000000 @@ k_nodejs :> 1000000 @@
    k_communication :> 900000 @@ k_teamwork :> 800000 @@
    k_leadership :> 900000 @@ k_sql :> 1000000 @@ k_database :> 1000000 @@
    k_mongodb :> 900000 @@ k_postgresql :> 1000000

\* the table _load_weights returns when the file is absent or unreadable
FallbackWeights ==
    k_python :> 1000000 @@ k_ai :> 1000000 @@ k_fastapi :> 1000000 @@
    k_communication :> 1000000

\* the empty dict {}
EmptyTable == [k \in {} |-> 0]

Digit == <<"0", "1", "2", "3", "4", "5", "6", "7", "8", "9">>

RECURSIVE DigitsOf(_)
\* the decimal digits of a natural number
DigitsOf(n) ==
    IF n < 10 THEN <<Digit[n + 1]>>
    ELSE Append(DigitsOf(n \div 10), Digit[(n % 10) + 1])

DigitValue(c) == CHOOSE d \in 0..9 : Digit[d + 1] = c

RECURSIVE NumberOf(_)
\* the natural number a run of decimal digits denotes
NumberOf(ds) ==
    IF ds = <<>> THEN 0
    ELSE NumberOf(SubSeq(ds, 1, Len(ds) - 1)) * 10 + DigitValue(ds[Len(ds)])

\* float_repr keeping three decimals, as "%.3f" would
float_repr_3f(w) ==
    LET rounded == (w + 500) \div 1000
    IN  DigitsOf(rounded \div 1000) \o <<".">> \o
        [i \in 1..3 |-> Digit[((rounded \div (10 ^ (3 - i))) % 10) + 1]]

\* float.__repr__ of a weight, as json.dump writes it: the whole part, ".",
\* and the decimals without trailing zeros ("1.2", "5.0", "0.977253")
float_repr(w) ==
    LET decimals == [i \in 1..6 |-> Digit[((w \div (10 ^ (6 - i))) % 10) + 1]]
        nonzero == {i \in 1..6 : decimals[i] /= "0"}
        n == IF nonzero = {} THEN 1
             ELSE CHOOSE i \in nonzero : \A j \in nonzero : j <= i
    IN  DigitsOf(w \div 1000000) \o <<".">> \o SubSeq(decimals, 1, n)

\* float(text) of a number json.load reads
parse_float(text) ==
    LET dot == CHOOSE i \in 1..Len(text) : text[i] = "."
        decimals == SubSeq(text, dot + 1, Len(text))
    IN  NumberOf(SubSeq(text, 1, dot - 1)) * 1000000
            + NumberOf(decimals) * (10 ^ (6 - Len(decimals)))

\* json.dump(self.weights, f): every key with the text of its weight
json_dump(w) == [k \in DOMAIN w |-> float_repr(w[k])]

\* json.load(f) of a text that json.dump wrote
json_load(content) == [k \in DOMAIN content |-> parse_float(content[k])]

\* data/rl_weights.json: absent, holding the JSON text of a table, or holding
\* what json.load rejects (an empty or truncated text).
FileAbsent == [kind |-> "absent", content |-> EmptyTable]

FileUnreadable == [kind |-> "unreadable", content |-> EmptyTable]

FileOf(w) == [kind |-> "table", content |-> json_dump(w)]

\* Tables an earlier process left in the file: the fallback table after 23
\* reward_log(["Python"], 5.0, "hired") and after 7
\* reward_log(["Python"], 1.0, "rejected"), and the one-key table of the
\* documented scenarios.
TrainedHigh ==
    k_python :> 5000000 @@ k_ai :> 977253 @@ k_fastapi :> 977253 @@
    k_communication :> 977253

TrainedLow ==
    k_python :> 100000 @@ k_ai :> 993021 @@ k_fastapi :> 993021 @@
    k_communication :> 993021

PythonOnly == k_python :> 1200000

InitialFiles ==
    {FileAbsent, FileOf(EmptyTable), FileOf(TrainedHigh), FileOf(TrainedLow),
     FileOf(PythonOnly)}

\* _load_weights: json.load of the file when it exists and parses
load_weights(f) ==
    IF f.kind = "table" THEN json_load(f.content) ELSE FallbackWeights

\* GET /ai/rl-state, the "weights" of the response: hr_brain._load_weights()
get_rl_state(f) == load_weights(f)

\* What the file system does to a save: "ok"; "makedirs_fails" (data/ is
\* missing and cannot be created, line 59); "open_fails" (line 61, nothing is
\* touched); "write_fails" (json.dump fails after open truncated the file).
WriteOutcomes == {"ok", "makedirs_fails", "open_fails", "write_fails"}

\* os.makedirs("data", exist_ok=True) cannot fail while data/rl_weights.json exists
WriteCanBe(f, write) == write = "makedirs_fails" => f.kind = "absent"

\* _save_weights that writes only the keys whose weight is not the one on file
save_weights_appending(w, f, write) ==
    IF write = "makedirs_fails" THEN [file |-> f, raised |-> TRUE]
    ELSE IF write = "open_fails" THEN [file |-> f, raised |-> FALSE]
    ELSE IF write = "write_fails" THEN [file |-> FileUnreadable, raised |-> FALSE]
    ELSE
    [file |-> [kind |-> "table",
               content |-> json_dump([k \in {x \in DOMAIN w :
                                               \/ f.kind /= "table"
                                               \/ x \notin DOMAIN f.content
                                               \/ parse_float(f.content[x]) /= w[x]} |->
                                         w[k]])],
     raised |-> FALSE]

\* _save_weights: the file after the call, and whether the call raised.
\* makedirs is outside the try block; open and json.dump are inside it.
save_weights(w, f, write) ==
    IF write = "makedirs_fails" THEN [file |-> f, raised |-> TRUE]
    ELSE IF write = "open_fails" THEN [file |-> f, raised |-> FALSE]
    ELSE IF write = "write_fails" THEN [file |-> FileUnreadable, raised |-> FALSE]
    ELSE [file |-> FileOf(w), raised |-> FALSE]

\* __init__: load, and install and save the default table when nothing loaded
Construct(f, write) ==
    LET loaded == load_weights(f)
    IN  IF DOMAIN loaded = {}
        THEN LET saved == save_weights(DefaultWeights, f, write)
             IN  [weights |-> DefaultWeights, file |-> saved.file, raised |-> saved.raised]
        ELSE [weights |-> loaded, file |-> f, raised |-> FALSE]

-----------------------------------------------------------------------------
(* Program constants, in millionths (probabilities in thousandths) *)

learning_rate == 150000

min_weight == 100000

max_weight == 5000000

discovery_threshold == 300000

new_skill_floor == 500000

new_skill_cap == 3000000

base_probability == 200

min_probability == 50000

max_probability == 950000

\* a * b for two fixed-point numbers that are multiples of 0.001
Mul(a, b) == (a \div 1000) * (b \div 1000)

\* w * 0.999, rounded to the nearest millionth
Decay(w) == w - ((w + 500) \div 1000)

-----------------------------------------------------------------------------
(* _calculate_reward *)

o_hired == <<"h","i","r","e","d">>
o_offer_accepted == <<"o","f","f","e","r","_","a","c","c","e","p","t","e","d">>
o_accept == <<"a","c","c","e","p","t">>
o_shortlisted == <<"s","h","o","r","t","l","i","s","t","e","d">>
o_interview == <<"i","n","t","e","r","v","i","e","w">>
o_second_round == <<"s","e","c","o","n","d","_","r","o","u","n","d">>
o_rejected == <<"r","e","j","e","c","t","e","d">>
o_declined == <<"d","e","c","l","i","n","e","d">>
o_reject == <<"r","e","j","e","c","t">>
o_reconsider == <<"r","e","c","o","n","s","i","d","e","r">>
o_maybe == <<"m","a","y","b","e">>
o_pending == <<"p","e","n","d","i","n","g">>

\* outcome_reward comparing the outcome as given, without lower()
outcome_reward_case_sensitive(outcome) ==
    IF outcome \in {o_hired, o_offer_accepted, o_accept} THEN 1500000
    ELSE IF outcome \in {o_shortlisted, o_interview, o_second_round} THEN 800000
    ELSE IF outcome \in {o_rejected, o_declined, o_reject} THEN -800000
    ELSE IF outcome \in {o_reconsider, o_maybe, o_pending} THEN 200000
    ELSE 0

outcome_reward(outcome) ==
    LET outcome_lower == Lower(outcome)
    IN  IF outcome_lower \in {o_hired, o_offer_accepted, o_accept} THEN 1500000
        ELSE IF outcome_lower \in {o_shortlisted, o_interview, o_second_round} THEN 800000
        ELSE IF outcome_lower \in {o_rejected, o_declined, o_reject} THEN -800000
        ELSE IF outcome_lower \in {o_reconsider, o_maybe, o_pending} THEN 200000
        ELSE 0

\* feedback_score and the result in millionths; outcome a str
calculate_reward(feedback_score, outcome) ==
    LET score_reward == (feedback_score - 3000000) \div 2
        total_reward == (score_reward * 6) \div 10 + (outcome_reward(outcome) * 4) \div 10
    IN  Max(-2000000, Min(2000000, total_reward))

-----------------------------------------------------------------------------
(* candidate_data *)

\* candidate_data as the two methods read it: what kind of value the "skills"
\* field holds, and the elements a for loop over it yields.  A missing field
\* reads as [] (the default of get); None yields nothing and cannot be
\* iterated; a str yields its characters, each a str of length one.
ListOf(skills) == [kind |-> "list", skills |-> skills]

BareString(s) == [kind |-> "str", skills |-> [i \in 1..Len(s) |-> <<s[i]>>]]

FieldMissing == [kind |-> "missing", skills |-> <<>>]

FieldNull == [kind |-> "null", skills |-> <<>>]

-----------------------------------------------------------------------------
(* predict_success *)

\* 1 / (1 + exp(-5 * (x - 0.5))) in millionths, at x = 0.00, 0.01, ..., 1.10
SigmoidTable ==
    << 75858, 79439, 83173, 87066, 91123, 95349, 99750, 104331, 109097, 114052,
       119203, 124553, 130108, 135873, 141851, 148047, 154465, 161109, 167982, 175086,
       182426, 190002, 197816, 205870, 214165, 222700, 231475, 240489, 249740, 259225,
       268941, 278885, 289050, 299433, 310026, 320821, 331812, 342990, 354344, 365864,
       377541, 389361, 401312, 413382, 425557, 437823, 450166, 462570, 475021, 487503,
       500000, 512497, 524979, 537430, 549834, 562177, 574443, 586618, 598688, 610639,
       622459, 634136, 645656, 657010, 668188, 679179, 689974, 700567, 710950, 721115,
       731059, 740775, 750260, 759511, 768525, 777300, 785835, 794130, 802184, 809998,
       817574, 824914, 832018, 838891, 845535, 851953, 858149, 864127, 869892, 875447,
       880797, 885948, 890903, 895669, 900250, 904651, 908877, 912934, 916827, 920561,
       924142, 927574, 930862, 934011, 937027, 939913, 942676, 945319, 947846, 950263,
       952574 >>

\* The logistic function of a normalized score x >= 0 given in units of
\* 0.00001: the table entry, interpolated linearly between two entries.  From
\* x = 1.10 on the value is above 0.95, where predict_success clamps it.
Sigmoid(x) ==
    IF x >= 110000 THEN SigmoidTable[111]
    ELSE LET i == (x \div 1000) + 1
             lo == SigmoidTable[i]
             hi == SigmoidTable[i + 1]
         IN  lo + ((hi - lo) * (x % 1000)) \div 1000

RECURSIVE Quotient(_, _, _)
\* num / den to the given number of decimal digits, by long division
Quotient(num, den, digits) ==
    IF digits = 0 THEN num \div den
    ELSE (num \div den) * (10 ^ digits) + Quotient((num % den) * 10, den, digits - 1)

\* skill in candidate_skill or candidate_skill in skill
PartialMatch(skill, candidate_skill) ==
    IsSubstring(skill, candidate_skill) \/ IsSubstring(candidate_skill, skill)

\* len(set(skill.split()) & set(candidate_skill.split())) > 0, given the
\* words of candidate_skill
WordOverlap(skill, candidate_words) ==
    Words(skill) \cap candidate_words /= {}

\* The score one keyword adds to total_score: its weight on an exact match,
\* else what the first candidate skill that matches it partially (0.8) or
\* shares a word with it (0.6) gives, else 0.  candidate_words[i] is
\* set(normalized_skills[i].split()).
skill_score(skill, weight, normalized_skills, candidate_words) ==
    IF \E i \in DOMAIN normalized_skills : normalized_skills[i] = skill
    THEN weight
    ELSE The({ IF hits = {} THEN 0
               ELSE The({ IF PartialMatch(skill, normalized_skills[first])
                          THEN (weight * 8) \div 10
                          ELSE (weight * 6) \div 10 :
                          first \in {CHOOSE i \in hits : \A j \in hits : i <= j} }) :
               hits \in {{i \in DOMAIN normalized_skills :
                             \/ PartialMatch(skill, normalized_skills[i])
                             \/ WordOverlap(skill, candidate_words[i])}} })

total_score(w, normalized_skills) ==
    The({ SumOver([k \in DOMAIN w |->
                      skill_score(k, w[k], normalized_skills, candidate_words)],
                  DOMAIN w) :
          candidate_words \in
              {[i \in DOMAIN normalized_skills |-> Words(normalized_skills[i])]} })

\* total_score / max(len(normalized_skills) * avg_weight, 1.0), in units of
\* 0.00001
normalized_score(w, normalized_skills) ==
    IF DOMAIN w = {} THEN 0
    ELSE LET avg_weight == SumOver(w, DOMAIN w) \div Cardinality(DOMAIN w)
             max_possible == Len(normalized_skills) * avg_weight
         IN  Quotient(total_score(w, normalized_skills), Max(max_possible, 1000000), 5)

\* probability_of without line 194
probability_of_unclamped(score) == (Sigmoid(score) + 500) \div 1000

\* lines 189-199: the probability of a normalized score, clamped and rounded
probability_of(score) ==
    (Max(min_probability, Min(max_probability, Sigmoid(score))) + 500) \div 1000

\* The returned probability in thousandths.  `not skills` holds of [], of a
\* missing field and of None; a non-str skill raises inside the try block and
\* the handler returns 0.2.
predict_success(w, candidate_data) ==
    The({ IF skills = <<>> THEN base_probability
          ELSE IF \E i \in DOMAIN skills : ~IsStr(skills[i]) THEN base_probability
          ELSE The({ probability_of(normalized_score(w, normalized_skills)) :
                     normalized_skills \in
                         {[i \in DOMAIN skills |-> Strip(Lower(skills[i]))]} }) :
          skills \in {candidate_data.skills} })

-----------------------------------------------------------------------------
(* policy_update *)

Clamp(lo, x, hi) == Max(lo, Min(hi, x))

\* lines 298-307: the delta rule on every keyword that occurs in a skill
update_existing(w, normalized_skills, reward) ==
    [k \in DOMAIN w |->
        IF \E i \in DOMAIN normalized_skills : IsSubstring(k, normalized_skills[i])
        THEN Clamp(min_weight, w[k] + Mul(learning_rate, reward), max_weight)
        ELSE w[k]]

\* Collides without the length test of line 317
Collides_ignoring_length(w, clean_s) ==
    \E existing \in DOMAIN w :
        \/ IsSubstring(existing, clean_s)
        \/ IsSubstring(clean_s, existing)

\* lines 316-319: clean_s collides with a keyword of the table
Collides(w, clean_s) ==
    \E existing \in DOMAIN w :
        \/ IsSubstring(existing, clean_s)
        \/ IsSubstring(clean_s, existing)
        \/ Abs(Len(existing) - Len(clean_s)) < 3

initial_weight(reward) ==
    Clamp(new_skill_floor, 1000000 + Mul(learning_rate, reward) * 2, new_skill_cap)

\* clean_s without the strip()
clean_unstripped(s) == Lower(s)

\* line 312: clean_s = s.strip().lower()
clean(s) == Lower(Strip(s))

RECURSIVE discover(_, _, _, _)
\* lines 311-325: the candidate skills from position i on, in list order,
\* each examined against the table as the earlier ones left it
discover(w, normalized_skills, i, reward) ==
    IF i > Len(normalized_skills) THEN w
    ELSE LET clean_s == clean(normalized_skills[i])
             should_add == ~Collides(w, clean_s)
             next == IF should_add /\ Len(clean_s) < 25 /\ Len(clean_s) > 2
                     THEN (clean_s :> initial_weight(reward)) @@ w
                     ELSE w
         IN  discover(next, normalized_skills, i + 1, reward)

\* apply_decay that also drops a keyword once it has decayed below min_weight
apply_decay_pruning(w, normalized_skills) ==
    [k \in {x \in DOMAIN w :
                \/ \E i \in DOMAIN normalized_skills : normalized_skills[i] = x
                \/ Decay(w[x]) >= min_weight} |->
        IF \E i \in DOMAIN normalized_skills : normalized_skills[i] = k
        THEN w[k]
        ELSE Decay(w[k])]

\* apply_decay without the test of line 330: every keyword is multiplied
apply_decay_every_key(w, normalized_skills) ==
    [k \in DOMAIN w |-> Decay(w[k])]

\* lines 329-331: every keyword that is not itself one of the lowercased
\* skills is multiplied by 0.999
apply_decay(w, normalized_skills) ==
    [k \in DOMAIN w |->
        IF \E i \in DOMAIN normalized_skills : normalized_skills[i] = k
        THEN w[k]
        ELSE Decay(w[k])]

\* decay_and_save without the test of line 328
decay_and_save_always(w, w2, normalized_skills) ==
    [raised |-> FALSE, weights |-> apply_decay(w2, normalized_skills), updated |-> TRUE]

\* lines 327-334, with w the table the call began with, w2 the table after
\* discovery: updated is True when a keyword matched or a key was inserted
decay_and_save(w, w2, normalized_skills) ==
    The({ [raised |-> FALSE,
           weights |-> IF updated THEN apply_decay(w2, normalized_skills) ELSE w2,
           updated |-> updated] :
          updated \in {\/ \E k \in DOMAIN w : \E i \in DOMAIN normalized_skills :
                             IsSubstring(k, normalized_skills[i])
                       \/ DOMAIN w2 /= DOMAIN w} })

\* discover_and_decay with the test of line 310 written reward >= 0.3
discover_and_decay_from_threshold(w, w1, normalized_skills, reward) ==
    The({ decay_and_save(w, w2, normalized_skills) :
          w2 \in {IF reward >= discovery_threshold
                  THEN discover(w1, normalized_skills, 1, reward)
                  ELSE w1} })

\* lines 309-325, with w1 the table after the delta rule
discover_and_decay(w, w1, normalized_skills, reward) ==
    The({ decay_and_save(w, w2, normalized_skills) :
          w2 \in {IF reward > discovery_threshold
                  THEN discover(w1, normalized_skills, 1, reward)
                  ELSE w1} })

\* lines 295-334
update_and_discover(w, normalized_skills, reward) ==
    The({ discover_and_decay(w, w1, normalized_skills, reward) :
          w1 \in {update_existing(w, normalized_skills, reward)} })

\* The call's result up to line 331: raised (None cannot be iterated and a
\* non-str skill has no lower(), line 293, before anything is assigned), the
\* table, and whether line 333 is to save it.
policy_update(w, candidate_data, reward) ==
    The({ IF candidate_data.kind = "null" \/ \E i \in DOMAIN skills : ~IsStr(skills[i])
          THEN [raised |-> TRUE, weights |-> w, updated |-> FALSE]
          ELSE The({ update_and_discover(w, normalized_skills, reward) :
                     normalized_skills \in {[i \in DOMAIN skills |-> Lower(skills[i])]} }) :
          skills \in {candidate_data.skills} })

-----------------------------------------------------------------------------
(* reward_log *)

\* predict_success entering every skill it was given into the table
weights_after_predict_discovering(w, candidate_data) ==
    [k \in DOMAIN w \cup {clean(candidate_data.skills[i]) : i \in DOMAIN candidate_data.skills} |->
        IF k \in DOMAIN w THEN w[k] ELSE 1000000]

\* self.weights when predict_success returns: the method assigns nothing to it
weights_after_predict(w, candidate_data) == w

\* _save_weights putting back the table the call began with when the write fails
weights_after_save_restoring(w, updated_weights, write) ==
    IF write = "ok" THEN updated_weights ELSE w

\* self.weights when _save_weights returns: the method assigns nothing to it,
\* whatever became of the write
weights_after_save(w, updated_weights, write) == updated_weights

\* The call's result.  outcome.lower() raises on a non-str outcome (line 270)
\* and policy_update raises on a skills field it cannot lower-case, both before
\* the table is assigned; os.makedirs raises after it is.  None of them is
\* caught.  write is what the file system does to the save of line 333.
reward_log(w, f, candidate_data, feedback_score, outcome, write) ==
    IF ~IsStr(outcome)
    THEN [raised |-> TRUE, weights |-> w, file |-> f, reward |-> 0, updated |-> FALSE,
          old_prediction |-> base_probability, new_prediction |-> base_probability]
    ELSE The({ The({ The({ [raised |-> pu.raised \/ saved.raised,
                            weights |-> IF pu.updated
                                        THEN weights_after_save(w, pu.weights, write)
                                        ELSE pu.weights,
                            file |-> saved.file,
                            reward |-> reward,
                            updated |-> pu.updated,
                            old_prediction |-> predict_success(w, candidate_data),
                            new_prediction |->
                                IF pu.raised \/ saved.raised THEN base_probability
                                ELSE predict_success(pu.weights, candidate_data)] :
                           saved \in {IF pu.updated THEN save_weights(pu.weights, f, write)
                                      ELSE [file |-> f, raised |-> FALSE]} }) :
                     pu \in {policy_update(weights_after_predict(w, candidate_data),
                                           candidate_data, reward)} }) :
               reward \in {calculate_reward(feedback_score, outcome)} })

-----------------------------------------------------------------------------
(* Two reward_log calls running in two threads of the server's pool *)

Threads == {1, 2}

\* A thread outside reward_log.
Idle == [pc |-> "idle", reward |-> 0, normalized_skills |-> <<>>, old_weight |-> EmptyTable]

\* line 303 adding the change to the weight as it is at the time of the write
assigned_weight_rereading(old_weight, current_weight, weight_change) ==
    Clamp(min_weight, current_weight + weight_change, max_weight)

\* line 303: the change is added to old_weight, the value line 300 read
assigned_weight(old_weight, current_weight, weight_change) ==
    Clamp(min_weight, old_weight + weight_change, max_weight)

-----------------------------------------------------------------------------
(* The calls a client makes *)

s_Python == <<"P","y","t","h","o","n">>
s_Python3 == <<"P","y","t","h","o","n","3">>
s_React == <<"R","e","a","c","t">>
s_NewSkill123 == <<"N","e","w","S","k","i","l","l","1","2","3">>
s_CommunicationSkills ==
    <<"C","o","m","m","u","n","i","c","a","t","i","o","n"," ","S","k","i","l","l","s">>
s_QuantumCryptography ==
    <<"Q","u","a","n","t","u","m"," ","C","r","y","p","t","o","g","r","a","p","h","y">>
s_Kubernetes_padded == <<" ","K","u","b","e","r","n","e","t","e","s"," ">>
s_DataEntry == <<"D","a","t","a"," ","E","n","t","r","y">>
s_DataScienceLab == <<"D","a","t","a"," ","S","c","i","e","n","c","e"," ","L","a","b">>

\* candidate_data["skills"]
SkillLists ==
    { <<>>, <<s_Python>>, <<s_Python3>>, <<s_React>>, <<s_NewSkill123>>,
      <<s_CommunicationSkills>>, <<s_QuantumCryptography>>,
      <<s_Kubernetes_padded>>, <<NonStr>>, <<s_DataEntry, s_DataScienceLab>> }

Candidates == {ListOf(skills) : skills \in SkillLists}

o_on_hold == <<"o","n","_","h","o","l","d">>

\* (feedback_score, outcome): rewards 1.2, -0.92 and 0.3
Feedback ==
    { <<5000000, o_hired>>, <<1000000, o_rejected>>, <<4000000, o_on_hold>> }

\* The calls of a client that does not validate what it passes on, made while
\* the file system may fail.
MalformedCandidates ==
    { FieldMissing, FieldNull, BareString(s_Python), ListOf(<<>>),
      ListOf(<<s_Python>>), ListOf(<<s_QuantumCryptography>>) }

MalformedFeedback == { <<5000000, o_hired>>, <<5000000, NonStr>> }

FaultyFiles == {FileAbsent, FileUnreadable, FileOf(EmptyTable), FileOf(PythonOnly)}

NoCall ==
    [op |-> "init", kind |-> "list", skills |-> <<>>, feedback_score |-> 0,
     outcome |-> <<>>, write |-> "none",
     reward |-> 0, raised |-> FALSE, updated |-> FALSE, ret |-> 0,
     old_prediction |-> 0, new_prediction |-> 0,
     before |-> EmptyTable, file_before |-> FileAbsent]

\* hr_brain = HRIntelligenceBrain(), with data/rl_weights.json as f
Start(f, write) ==
    /\ WriteCanBe(f, write)
    /\ weights = Construct(f, write).weights
    /\ file = Construct(f, write).file
    /\ last = [NoCall EXCEPT !.file_before = f,
                             !.write = IF DOMAIN load_weights(f) = {} THEN write
                                       ELSE "none"]
    /\ calls = 0
    /\ threads = [t \in Threads |-> Idle]

Init == \E f \in InitialFiles : Start(f, "ok")

\* brain.predict_success(candidate_data)
Predict(candidate_data) ==
    /\ calls < MaxCalls
    /\ weights' = weights_after_predict(weights, candidate_data)
    /\ file' = file
    /\ last' = [NoCall EXCEPT !.op = "predict", !.kind = candidate_data.kind,
                              !.skills = candidate_data.skills,
                              !.ret = predict_success(weights, candidate_data),
                              !.before = weights, !.file_before = file]
    /\ calls' = calls + 1
    /\ UNCHANGED threads

\* brain.reward_log(candidate_data, feedback_score, outcome)
RewardLog(candidate_data, feedback_score, outcome, write) ==
    /\ calls < MaxCalls
    /\ WriteCanBe(file, write)
    /\ \E r \in {reward_log(weights, file, candidate_data, feedback_score, outcome, write)} :
        /\ write /= "ok" => r.updated
        /\ weights' = r.weights
        /\ file' = r.file
        /\ last' = [NoCall EXCEPT !.op = "reward_log", !.kind = candidate_data.kind,
                                  !.skills = candidate_data.skills,
                                  !.feedback_score = feedback_score,
                                  !.outcome = outcome,
                                  !.write = IF r.updated THEN write ELSE "none",
                                  !.reward = r.reward,
                                  !.raised = r.raised, !.updated = r.updated,
                                  !.old_prediction = r.old_prediction,
                                  !.new_prediction = r.new_prediction,
                                  !.before = weights, !.file_before = file]
    /\ calls' = calls + 1
    /\ UNCHANGED threads

\* One client, well-formed candidates, every write succeeding.
Next ==
    \/ \E candidate_data \in Candidates : Predict(candidate_data)
    \/ \E candidate_data \in Candidates : \E fb \in Feedback :
           RewardLog(candidate_data, fb[1], fb[2], "ok")

Spec == Init /\ [][Next]_vars

\* One client that passes on what it was sent, on a file system that may fail.
InitFaulty == \E f \in FaultyFiles : \E write \in WriteOutcomes : Start(f, write)

NextFaulty ==
    \/ \E candidate_data \in MalformedCandidates : Predict(candidate_data)
    \/ \E candidate_data \in MalformedCandidates : \E fb \in MalformedFeedback :
           \E write \in WriteOutcomes : RewardLog(candidate_data, fb[1], fb[2], write)

SpecFaulty == InitFaulty /\ [][NextFaulty]_vars

\* Two threads of the pool, each in reward_log(candidate_data, ...) on the one
\* instance hr_brain, for a candidate whose skill matches one keyword.  A
\* thread is followed from the read of line 300 on: what reward_log does
\* before it only reads.
ThreadCandidate == ListOf(<<s_Python>>)

\* lines 212 and 292-300: the reward, the lowercased skills, and old_weight of
\* every keyword that occurs in a skill
Enter(t, feedback_score, outcome) ==
    /\ threads[t].pc = "idle"
    /\ \E normalized_skills \in
           {[i \in DOMAIN ThreadCandidate.skills |-> Lower(ThreadCandidate.skills[i])]} :
         threads' = [threads EXCEPT ![t] =
                        [pc |-> "line_303",
                         reward |-> calculate_reward(feedback_score, outcome),
                         normalized_skills |-> normalized_skills,
                         old_weight |->
                             [k \in {x \in DOMAIN weights :
                                        \E i \in DOMAIN normalized_skills :
                                            IsSubstring(x, normalized_skills[i])} |->
                                 weights[k]]]]
    /\ UNCHANGED <<weights, file, last, calls>>

\* lines 302-325: the assignment of the new weight, and the discovery loop
Assign(t) ==
    /\ threads[t].pc = "line_303"
    /\ \E th \in {threads[t]} :
         \E w1 \in {[k \in DOMAIN weights |->
                       IF k \in DOMAIN th.old_weight
                       THEN assigned_weight(th.old_weight[k], weights[k],
                                            Mul(learning_rate, th.reward))
                       ELSE weights[k]]} :
           weights' = IF th.reward > discovery_threshold
                      THEN discover(w1, th.normalized_skills, 1, th.reward)
                      ELSE w1
    /\ threads' = [threads EXCEPT ![t].pc = "line_329"]
    /\ UNCHANGED <<file, last, calls>>

\* lines 329-331
DecayUnused(t) ==
    /\ threads[t].pc = "line_329"
    /\ weights' = apply_decay(weights, threads[t].normalized_skills)
    /\ threads' = [threads EXCEPT ![t].pc = "line_333"]
    /\ UNCHANGED <<file, last, calls>>

\* line 333, and the return of reward_log
Save(t) ==
    /\ threads[t].pc = "line_333"
    /\ file' = save_weights(weights, file, "ok").file
    /\ threads' = [threads EXCEPT ![t].pc = "done"]
    /\ calls' = calls + 1
    /\ UNCHANGED <<weights, last>>

NextThreads ==
    \/ \E t \in Threads : \E fb \in Feedback : Enter(t, fb[1], fb[2])
    \/ \E t \in Threads : Assign(t)
    \/ \E t \in Threads : DecayUnused(t)
    \/ \E t \in Threads : Save(t)

SpecThreads == Init /\ [][NextThreads]_vars

\* A predict_success call (POST /ai/decide) in one thread of the pool while a
\* reward_log call (POST /ai/feedback) runs in another, on the one instance
\* hr_brain built from no file.
Updater == 1
Predictor == 2

OverlapSkills == { <<s_Python>>, <<s_QuantumCryptography>> }

InitOverlap == Start(FileAbsent, "ok")

\* The order in which a dict yields its keys: the order of insertion, which for
\* the table of line 55 is the order of the literal, a key inserted later last.
FallbackOrder == <<k_python, k_ai, k_fastapi, k_communication>>

RECURSIVE SeqOfSet(_)
SeqOfSet(S) ==
    IF S = {} THEN <<>>
    ELSE LET k == CHOOSE x \in S : TRUE IN <<k>> \o SeqOfSet(S \ {k})

dict_order(w) == FallbackOrder \o SeqOfSet(DOMAIN w \ DOMAIN FallbackWeights)

\* lines 212 and 292-300 of the update, as Enter, for the skills given; last
\* keeps the table the update found
EnterUpdate(skills) ==
    /\ threads[Updater].pc = "idle"
    /\ \E normalized_skills \in {[i \in DOMAIN skills |-> Lower(skills[i])]} :
         threads' = [threads EXCEPT ![Updater] =
                        [pc |-> "line_303",
                         reward |-> calculate_reward(5000000, o_hired),
                         normalized_skills |-> normalized_skills,
                         old_weight |->
                             [k \in {x \in DOMAIN weights :
                                        \E i \in DOMAIN normalized_skills :
                                            IsSubstring(x, normalized_skills[i])} |->
                                 weights[k]]]]
    /\ last' = [NoCall EXCEPT !.op = "reward_log", !.skills = skills,
                              !.feedback_score = 5000000, !.outcome = o_hired,
                              !.write = "ok",
                              !.reward = calculate_reward(5000000, o_hired),
                              !.updated = TRUE,
                              !.before = weights, !.file_before = file]
    /\ UNCHANGED <<weights, file, calls>>

\* lines 151-160: the skills are normalized and the iteration over
\* self.weights.items() begins; the iterator remembers the size of the dict
PredictEnter(skills) ==
    /\ threads[Predictor].pc = "idle"
    /\ threads' = [threads EXCEPT ![Predictor] =
                      [pc |-> "line_160",
                       skills |-> skills,
                       normalized_skills |-> [i \in DOMAIN skills |-> Strip(Lower(skills[i]))],
                       keys |-> dict_order(weights),
                       size |-> Cardinality(DOMAIN weights),
                       total_score |-> 0,
                       ret |-> 0]]
    /\ UNCHANGED <<weights, file, last, calls>>

\* line 160, the iterator asked for the next item after the dict changed size:
\* RuntimeError, caught at line 201, and 0.2 returned at line 203
PredictRaise ==
    /\ threads[Predictor].pc = "line_160"
    /\ Cardinality(DOMAIN weights) /= threads[Predictor].size
    /\ threads' = [threads EXCEPT ![Predictor].pc = "returned",
                                  ![Predictor].ret = base_probability]
    /\ calls' = calls + 1
    /\ UNCHANGED <<weights, file, last>>

\* lines 160-179: one keyword and its weight as it is now, added to total_score
PredictVisit ==
    /\ threads[Predictor].pc = "line_160"
    /\ Cardinality(DOMAIN weights) = threads[Predictor].size
    /\ threads[Predictor].keys /= <<>>
    /\ \E th \in {threads[Predictor]} :
         \E skill \in {Head(th.keys)} :
           threads' = [threads EXCEPT
               ![Predictor].keys = Tail(th.keys),
               ![Predictor].total_score =
                   th.total_score +
                   skill_score(skill, weights[skill], th.normalized_skills,
                               [i \in DOMAIN th.normalized_skills |->
                                   Words(th.normalized_skills[i])])]
    /\ UNCHANGED <<weights, file, last, calls>>

\* line 160: the iterator is exhausted and the loop ends
PredictLoopEnd ==
    /\ threads[Predictor].pc = "line_160"
    /\ Cardinality(DOMAIN weights) = threads[Predictor].size
    /\ threads[Predictor].keys = <<>>
    /\ threads' = [threads EXCEPT ![Predictor].pc = "line_182"]
    /\ UNCHANGED <<weights, file, last, calls>>

\* lines 181-199: total_score over the average weight of the table as it is now
PredictReturn ==
    /\ threads[Predictor].pc = "line_182"
    /\ \E th \in {threads[Predictor]} :
         \E avg_weight \in {SumOver(weights, DOMAIN weights) \div Cardinality(DOMAIN weights)} :
           threads' = [threads EXCEPT
               ![Predictor].pc = "returned",
               ![Predictor].ret =
                   probability_of(Quotient(th.total_score,
                                           Max(Len(th.normalized_skills) * avg_weight, 1000000),
                                           5))]
    /\ calls' = calls + 1
    /\ UNCHANGED <<weights, file, last>>

NextOverlap ==
    \/ \E skills \in OverlapSkills : EnterUpdate(skills)
    \/ Assign(Updater)
    \/ DecayUnused(Updater)
    \/ Save(Updater)
    \/ \E skills \in OverlapSkills : PredictEnter(skills)
    \/ PredictRaise
    \/ PredictVisit
    \/ PredictLoopEnd
    \/ PredictReturn

SpecOverlap == InitOverlap /\ [][NextOverlap]_vars

\* _calculate_reward on its own, over scores inside and outside 1.0 .. 5.0 and
\* outcomes of every group, in several spellings.
o_Hired == <<"H","i","r","e","d">>
o_OFFER_ACCEPTED == <<"O","F","F","E","R","_","A","C","C","E","P","T","E","D">>
o_Interview == <<"I","n","t","e","r","v","i","e","w">>
o_REJECT == <<"R","E","J","E","C","T">>
o_Maybe == <<"M","a","y","b","e">>
o_hired_padded == <<" ","h","i","r","e","d"," ">>

Scores == {-5000000, 0, 1000000, 2000000, 3000000, 3500000, 4000000, 5000000, 10000000}

Outcomes ==
    { o_hired, o_offer_accepted, o_accept, o_shortlisted, o_interview, o_second_round,
      o_rejected, o_declined, o_reject, o_reconsider, o_maybe, o_pending,
      o_on_hold, <<>>, o_hired_padded,
      o_Hired, o_OFFER_ACCEPTED, o_Interview, o_REJECT, o_Maybe }

\* brain._calculate_reward(feedback_score, outcome)
CalculateReward(feedback_score, outcome) ==
    /\ last' = [NoCall EXCEPT !.op = "calculate_reward",
                              !.feedback_score = feedback_score, !.outcome = outcome,
                              !.reward = calculate_reward(feedback_score, outcome),
                              !.before = weights, !.file_before = file]
    /\ UNCHANGED <<weights, file, calls, threads>>

NextReward ==
    \E feedback_score \in Scores : \E outcome \in Outcomes :
        CalculateReward(feedback_score, outcome)

SpecReward == Init /\ [][NextReward]_vars

\* The same positive feedback given again and again for one candidate whose
\* single skill is a keyword of the table.
RepeatedSkills == { <<s_Python>>, <<s_React>> }

\* The calls followed: from the floor 0.1 the cap 5.0 is 28 calls away.
MaxHires == 40

\* The client has a further call to make: the same candidate as before, its
\* skill a keyword of the table.
CanHire(skills) ==
    /\ calls < MaxHires
    /\ last.op = "init" \/ last.skills = skills
    /\ Lower(skills[1]) \in DOMAIN weights

\* brain.reward_log({"skills": skills}, 5.0, "hired"), once more
Hire(skills) ==
    /\ CanHire(skills)
    /\ \E r \in {reward_log(weights, file, ListOf(skills), 5000000, o_hired, "ok")} :
        /\ weights' = r.weights
        /\ file' = r.file
        /\ last' = [NoCall EXCEPT !.op = "reward_log", !.skills = skills,
                                  !.feedback_score = 5000000, !.outcome = o_hired,
                                  !.write = IF r.updated THEN "ok" ELSE "none",
                                  !.reward = r.reward,
                                  !.raised = r.raised, !.updated = r.updated,
                                  !.old_prediction = r.old_prediction,
                                  !.new_prediction = r.new_prediction,
                                  !.before = weights, !.file_before = file]
    /\ calls' = calls + 1
    /\ UNCHANGED threads

NextRepeat == \E skills \in RepeatedSkills : Hire(skills)

\* The client keeps calling: a call it has to make is made.  Every call adds
\* one to calls, so the steps that do are the steps of NextRepeat.
SpecRepeat ==
    /\ Init /\ [][NextRepeat]_vars
    /\ WF_calls((\E skills \in RepeatedSkills : CanHire(skills)) /\ calls' = calls + 1)

\* Positive feedback for candidates with one skill no table has seen: for each
\* length a string whose first letter no other has, so that none occurs in
\* another or in a keyword.
Letters ==
    <<"A","B","C","D","E","F","G","H","I","J","K","L","M","N","O","P","Q","R","S","T",
      "U","V","W","X","Y","Z">>

NovelLengths == 1..26

NovelSkill(n) == [i \in 1..n |-> IF i = 1 THEN Letters[n] ELSE "_"]

\* The tables the constructor builds when no update was ever saved.
GrowthFiles == {FileAbsent, FileOf(EmptyTable)}

InitGrowth == \E f \in GrowthFiles : Start(f, "ok")

\* No key of the table is the skill.
IsNovel(n) == Lower(NovelSkill(n)) \notin DOMAIN weights

\* lines 316-321 let the skill in
CanInsert(n) ==
    /\ IsNovel(n)
    /\ ~Collides(weights, Lower(NovelSkill(n)))
    /\ n < 25 /\ n > 2

\* brain.reward_log({"skills": [NovelSkill(n)]}, 5.0, "hired"); last keeps the
\* last call that changed the table and calls counts those calls
Discover(n) ==
    /\ IsNovel(n)
    /\ \E r \in {reward_log(weights, file, ListOf(<<NovelSkill(n)>>), 5000000, o_hired, "ok")} :
        /\ weights' = r.weights
        /\ file' = r.file
        /\ last' = IF r.updated
                   THEN [NoCall EXCEPT !.op = "reward_log", !.skills = <<NovelSkill(n)>>,
                                       !.feedback_score = 5000000, !.outcome = o_hired,
                                       !.write = "ok", !.reward = r.reward,
                                       !.raised = r.raised, !.updated = r.updated,
                                       !.old_prediction = r.old_prediction,
                                       !.new_prediction = r.new_prediction,
                                       !.before = weights, !.file_before = file]
                   ELSE last
        /\ calls' = IF r.updated THEN calls + 1 ELSE calls
    /\ UNCHANGED threads

NextGrowth == \E n \in NovelLengths : Discover(n)

\* The client tries every string: a call that would insert a key is made.
SpecGrowth ==
    /\ InitGrowth /\ [][NextGrowth]_vars
    /\ WF_calls((\E n \in NovelLengths : CanInsert(n)) /\ calls' = calls + 1)

-----------------------------------------------------------------------------
(* Properties *)

\* A skill as the caller gave it, lowercased and trimmed.
Normalized(s) == Strip(Lower(s))

\* The last call was reward_log and it returned.
Updated == last.op = "reward_log" /\ ~last.raised

\* The last call was reward_log(candidate, feedback_score, outcome) and it returned.
UpdatedWith(feedback_score, outcome) ==
    Updated /\ last.feedback_score = feedback_score /\ Lower(last.outcome) = outcome

\* The keywords of table w that occur in one of the lowercased skills.
MatchedKeywords(w, skills) ==
    {k \in DOMAIN w : \E i \in DOMAIN skills : IsSubstring(k, Lower(skills[i]))}

\* C1: in every state, every weight of the in-memory table lies in
\* [0.1, 5.0] (the tables a scorer is constructed with all do).
C1_WeightsWithinBounds ==
    \A k \in DOMAIN weights : min_weight <= weights[k] /\ weights[k] <= max_weight

\* C2: after reward_log(candidate, 5.0, "hired"), every keyword that occurs in
\* a lowercased candidate skill weighs at least what it weighed before.
C2_HiredNeverLowers ==
    UpdatedWith(5000000, o_hired) =>
        \A k \in MatchedKeywords(last.before, last.skills) : weights[k] >= last.before[k]

\* C3: after reward_log(candidate, 1.0, "rejected"), every keyword that occurs
\* in a lowercased candidate skill weighs at most what it weighed before.
C3_RejectedNeverRaises ==
    UpdatedWith(1000000, o_rejected) =>
        \A k \in MatchedKeywords(last.before, last.skills) : weights[k] <= last.before[k]

\* C4: every value predict_success returns, to a client or to reward_log,
\* lies in [0.05, 0.95].
C4_PredictWithinBounds ==
    /\ last.op = "predict" => 50 <= last.ret /\ last.ret <= 950
    /\ last.op = "reward_log" =>
          /\ 50 <= last.old_prediction /\ last.old_prediction <= 950
          /\ 50 <= last.new_prediction /\ last.new_prediction <= 950

\* C4 witness: a prediction on the normal path that the clamp held at 0.95,
\* after one on a fallback path.
C4_ClampedPrediction ==
    /\ last.op = "predict" /\ last.skills = <<s_Python>> /\ last.ret = 950
    /\ calls = 2

\* C5: a reward_log whose reward is at most 0.3 leaves the key set as it was.
C5_NoDiscoveryAtLowReward ==
    (Updated /\ last.reward <= discovery_threshold) =>
        DOMAIN weights = DOMAIN last.before

\* C5 witness: a reward of exactly 0.3 with a skill that a higher reward
\* inserts.
C5_ThresholdReward ==
    /\ Updated /\ last.reward = discovery_threshold
    /\ last.skills = <<s_QuantumCryptography>>
    /\ ~Collides(last.before, Normalized(s_QuantumCryptography))

\* The three conditions of C6 on a string s against the keys of table w.
Novel(w, s) ==
    /\ Len(s) >= 3 /\ Len(s) <= 24
    /\ \A k \in DOMAIN w :
          /\ ~IsSubstring(k, s)
          /\ ~IsSubstring(s, k)
          /\ Abs(Len(k) - Len(s)) >= 3

\* The last call was a reward_log with reward > 0.3 and one str skill.
DiscoveryCall ==
    /\ Updated /\ last.reward > discovery_threshold
    /\ Len(last.skills) = 1 /\ IsStr(last.skills[1])

\* The last call added exactly the lowercased, trimmed skill to the key set.
AddedTheSkill ==
    /\ Normalized(last.skills[1]) \notin DOMAIN last.before
    /\ DOMAIN weights = DOMAIN last.before \cup {Normalized(last.skills[1])}

\* C6 as stated: the conditions taken on the skill s as the caller gave it.
C6_NovelAsGivenIsAdded ==
    (DiscoveryCall /\ Novel(last.before, last.skills[1])) => AddedTheSkill

\* C6 amended: the conditions taken on the lowercased, trimmed s.
C6_NovelNormalizedIsAdded ==
    (DiscoveryCall /\ Novel(last.before, Normalized(last.skills[1]))) => AddedTheSkill

\* C6 witness: a padded skill whose trimmed form is novel was added.
C6_PaddedSkillAdded ==
    /\ DiscoveryCall /\ last.skills = <<s_Kubernetes_padded>>
    /\ Novel(last.before, Normalized(s_Kubernetes_padded))
    /\ AddedTheSkill

PredictedNovelSkill ==
    /\ last.op = "predict" /\ Len(last.skills) = 1 /\ IsStr(last.skills[1])
    /\ Normalized(last.skills[1]) \notin DOMAIN last.before

\* C8: predict_success on a candidate whose only skill is not in the table
\* leaves the table with more keywords than before.
C8_PredictAddsKeyword ==
    PredictedNovelSkill =>
        Cardinality(DOMAIN weights) > Cardinality(DOMAIN last.before)

\* C9: on a freshly constructed scorer, reward_log(candidate, 5.0, "hired")
\* for a one-skill candidate changes what predict_success returns for it.
C9_LearningObservable ==
    (calls = 1 /\ UpdatedWith(5000000, o_hired) /\ Len(last.skills) = 1) =>
        last.new_prediction /= last.old_prediction

\* C10: no call removes a key, and the table is never empty.
C10_KeysOnlyGrow ==
    /\ DOMAIN weights /= {}
    /\ last.op /= "init" => DOMAIN last.before \subseteq DOMAIN weights

\* C10 witness: a second update, which decayed the key python below 0.1, kept
\* every key.
C10_KeysKeptThroughDecay ==
    /\ Updated /\ last.updated /\ calls = 2
    /\ k_python \in DOMAIN weights /\ weights[k_python] < min_weight
    /\ Cardinality(DOMAIN weights) > Cardinality(DOMAIN Construct(FileOf(TrainedLow), "ok").weights)

-----------------------------------------------------------------------------
(* Properties of construction, persistence and malformed input *)

\* File f holds the whole of table w: the same keys, each with its weight.
FileHolds(f, w) ==
    /\ f.kind = "table"
    /\ DOMAIN f.content = DOMAIN w
    /\ \A k \in DOMAIN w : parse_float(f.content[k]) = w[k]

\* C11: when the constructor found the file absent or unreadable, the file
\* holds the in-memory table once the constructor has returned.
C11_BootstrapPersisted ==
    (last.op = "init" /\ last.file_before.kind \in {"absent", "unreadable"}) =>
        FileHolds(file, weights)

\* C12: after a reward_log whose write succeeded and that changed the
\* in-memory table, the file holds the whole in-memory table.
C12_FileHoldsWholeTable ==
    (Updated /\ last.write = "ok" /\ weights /= last.before) =>
        FileHolds(file, weights)

\* C12 witness: an update on a table loaded from the file changed some
\* weights and left one as it was, and the file holds all of them.
C12_SavedUnchangedKeyToo ==
    /\ Updated /\ last.write = "ok" /\ weights /= last.before
    /\ \E k \in DOMAIN last.before : weights[k] = last.before[k]
    /\ last.file_before.kind = "table"
    /\ FileHolds(file, weights)

\* C13: after a reward_log, whatever became of its write, the file is the one
\* the call found or holds the table the call left in memory.
C13_SaveIsAtomic ==
    last.op = "reward_log" =>
        file = last.file_before \/ FileHolds(file, weights)

\* A fresh scorer constructed on the file as it is now.
Reloaded == Construct(file, "ok")

\* C14: after a reward_log that saved the table, a scorer constructed on the
\* file has the same table in memory, and leaves the file as it is.
C14_ReloadYieldsSavedTable ==
    (Updated /\ last.updated /\ last.write = "ok") =>
        Reloaded.weights = weights /\ Reloaded.file = file

\* C14 witness: the saved table has a weight with more than three decimals,
\* saved after an earlier write had failed.
C14_ReloadOfDecayedTable ==
    /\ Updated /\ last.updated /\ last.write = "ok" /\ calls = 2
    /\ last.before /= load_weights(last.file_before)
    /\ \E k \in DOMAIN weights : weights[k] % 1000 /= 0
    /\ Reloaded.weights = weights

\* The candidate_data of the last call.
LastCandidate == [kind |-> last.kind, skills |-> last.skills]

\* The last call was a reward_log whose write to the file failed.
WriteFailed ==
    /\ last.op = "reward_log" /\ last.updated
    /\ last.write \in {"open_fails", "write_fails"}

C16_NoSkillsGivesBase ==
    (last.op = "predict" /\ (last.kind /= "list" \/ last.skills = <<>>)) =>
        last.ret = base_probability

\* C17: no reward_log call raises to its caller.
C17_RewardLogNeverRaises ==
    last.op = "reward_log" => ~last.raised

-----------------------------------------------------------------------------
(* Properties of two concurrent calls *)

\* Both threads have returned from reward_log.
BothDone == \A t \in Threads : threads[t].pc = "done"

\* Both threads read the same old_weight of python at line 300.
SameRead ==
    /\ \A t \in Threads : k_python \in DOMAIN threads[t].old_weight
    /\ threads[1].old_weight[k_python] = threads[2].old_weight[k_python]

\* The weight of python after one call alone, made on weight w0.
AfterOne(w0, t) ==
    Clamp(min_weight, w0 + Mul(learning_rate, threads[t].reward), max_weight)

\* C18: when both calls read the weight of python before either assigned it,
\* the table ends with the effect of one call only on it: the weight one
\* call alone would have left.
C18_OverlappingCallsLoseAnUpdate ==
    (BothDone /\ SameRead) =>
        \E t \in Threads :
            weights[k_python] = AfterOne(threads[t].old_weight[k_python], t)

\* C18 witness: both calls have returned, and the weight of python, in memory
\* and in the file, is the result of neither sequential order.
C18_LostUpdate ==
    /\ BothDone /\ SameRead
    /\ weights[k_python] /= AfterOne(AfterOne(threads[1].old_weight[k_python], 1), 2)
    /\ weights[k_python] /= AfterOne(AfterOne(threads[1].old_weight[k_python], 2), 1)
    /\ FileHolds(file, weights)

-----------------------------------------------------------------------------
(* Properties of the match tiers and of the decay *)

\* The score of a keyword with the tiers taken in order over all candidate
\* skills: exact, else substring of or containing some skill, else sharing a
\* word with some skill.
TieredScore(skill, weight, normalized_skills) ==
    IF \E i \in DOMAIN normalized_skills : normalized_skills[i] = skill THEN weight
    ELSE IF \E i \in DOMAIN normalized_skills : PartialMatch(skill, normalized_skills[i])
         THEN (weight * 8) \div 10
    ELSE IF \E i \in DOMAIN normalized_skills :
                WordOverlap(skill, Words(normalized_skills[i]))
         THEN (weight * 6) \div 10
    ELSE 0

\* C19: in a prediction for a list of str skills, every keyword scores what
\* the tiers taken in priority order over all candidate skills give it.
C19_TiersInPriorityOrder ==
    (last.op = "predict" /\ last.kind = "list"
        /\ \A i \in DOMAIN last.skills : IsStr(last.skills[i])) =>
        LET normalized_skills == [i \in DOMAIN last.skills |-> Normalized(last.skills[i])]
            candidate_words == [i \in DOMAIN last.skills |-> Words(normalized_skills[i])]
        IN  \A k \in DOMAIN last.before :
                skill_score(k, last.before[k], normalized_skills, candidate_words)
                    = TieredScore(k, last.before[k], normalized_skills)

\* C20: after a reward_log that changed or inserted a keyword, a keyword that
\* occurs in a lowercased skill has the delta rule's weight, not decayed, and
\* every other keyword has its weight multiplied by 0.999.
C20_DecayExactlyUnmatched ==
    (Updated /\ last.updated) =>
        \A k \in DOMAIN last.before :
            weights[k] =
                IF k \in MatchedKeywords(last.before, last.skills)
                THEN Clamp(min_weight, last.before[k] + Mul(learning_rate, last.reward),
                           max_weight)
                ELSE Decay(last.before[k])

-----------------------------------------------------------------------------
(* Properties of one update call *)

\* The weight the delta rule gives a keyword that weighed w.
DeltaRule(w, reward) ==
    Clamp(min_weight, w + Mul(learning_rate, reward), max_weight)

\* C21: when reward_log returns, every keyword that occurs in a lowercased
\* candidate skill has the weight one application of the delta rule gives it.
C21_DeltaRuleAppliedOnce ==
    Updated =>
        \A k \in MatchedKeywords(last.before, last.skills) :
            weights[k] = DeltaRule(last.before[k], last.reward)

\* The keys the last call inserted.
Inserted == DOMAIN weights \ DOMAIN last.before

\* C22: when reward_log returns, every key it inserted weighs
\* clamp(1.0 + 2 x 0.15 x reward, 0.5, 3.0).
C22_InsertedWeightIsInitial ==
    Updated =>
        \A k \in Inserted :
            weights[k] = Clamp(new_skill_floor,
                               1000000 + 2 * Mul(learning_rate, last.reward),
                               new_skill_cap)

\* Neither string occurs in the other and their lengths differ by 3 or more.
Apart(a, b) ==
    /\ ~IsSubstring(a, b) /\ ~IsSubstring(b, a)
    /\ Abs(Len(a) - Len(b)) >= 3

\* C23: every key a reward_log inserted is apart from every other key of the
\* table, those it found there and those the same call inserted.
C23_DiscoveredKeysCollideWithNone ==
    Updated => \A k \in Inserted : \A e \in DOMAIN weights \ {k} : Apart(k, e)

\* C23 witness: one call inserted two keys.
C23_TwoKeysInserted ==
    /\ Updated /\ Cardinality(Inserted) = 2
    /\ \A k \in Inserted : \A e \in DOMAIN weights \ {k} : Apart(k, e)

\* C25: a reward_log in which no keyword occurs in a skill and no key is
\* inserted leaves the table and the file as they were.
C25_NoOpUpdateWritesNothing ==
    (Updated /\ MatchedKeywords(last.before, last.skills) = {} /\ Inserted = {}) =>
        weights = last.before /\ file = last.file_before

\* C25 witness: a skill that discovery examined and rejected, on a scorer
\* that has no file yet: the table is unchanged and there is still no file.
C25_RejectedSkillNoFile ==
    /\ Updated /\ last.reward > discovery_threshold /\ last.skills = <<s_React>>
    /\ MatchedKeywords(last.before, last.skills) = {} /\ Inserted = {}
    /\ weights = last.before /\ file = FileAbsent

-----------------------------------------------------------------------------
(* Properties of the keys, the reward and the state endpoint *)

DocumentedOutcomeReward(outcome_lower) ==
    CASE outcome_lower \in {o_hired, o_offer_accepted, o_accept} -> 1500000
      [] outcome_lower \in {o_shortlisted, o_interview, o_second_round} -> 800000
      [] outcome_lower \in {o_rejected, o_declined, o_reject} -> -800000
      [] outcome_lower \in {o_reconsider, o_maybe, o_pending} -> 200000
      [] OTHER -> 0

\* C27: the reward is clamp(0.6 x (feedback_score - 3) / 2 + 0.4 x
\* outcome_reward, -2.0, 2.0), the outcome matched without regard to case.
C27_RewardFormula ==
    last.op = "calculate_reward" =>
        last.reward =
            Clamp(-2000000,
                  (6 * ((last.feedback_score - 3000000) \div 2)) \div 10
                      + (4 * DocumentedOutcomeReward(Lower(last.outcome))) \div 10,
                  2000000)

\* C27 witness: an outcome in capitals with a score that the clamp holds at 2.0.
C27_ClampedCapitalOutcome ==
    /\ last.op = "calculate_reward" /\ last.outcome = o_OFFER_ACCEPTED
    /\ last.feedback_score = 10000000 /\ last.reward = 2000000

\* C29: the weights GET /ai/rl-state reports are the in-memory table.
C29_RlStateShowsMemory ==
    get_rl_state(file) = weights

-----------------------------------------------------------------------------
(* Properties of repeated calls *)

\* C30: under repeated reward_log calls with (5.0, "hired") for one candidate
\* whose single skill is a keyword, that keyword's weight reaches 5.0 and is
\* 5.0 after every further call.
C30_RepeatedHireReachesAndKeepsCap ==
    <>[](last.op = "reward_log" /\ weights[Lower(last.skills[1])] = max_weight)

\* C30 witness: a call made when the keyword already weighed 5.0 left it at 5.0.
C30_CallAtTheCap ==
    /\ Updated /\ last.skills = <<s_Python>>
    /\ last.before[k_python] = max_weight /\ weights[k_python] = max_weight

\* The keys that are not keys of the bootstrap table.
Discovered == DOMAIN weights \ DOMAIN DefaultWeights

-----------------------------------------------------------------------------
(* Properties of a prediction that overlaps an update *)

\* C28: a predict_success call that overlaps a reward_log on the instance
\* returns what it returns on the table before the update or on the table
\* after it.
C28_OverlappingPredictSeesOneTable ==
    (threads[Updater].pc = "done" /\ threads[Predictor].pc = "returned") =>
        threads[Predictor].ret \in
            { predict_success(last.before, ListOf(threads[Predictor].skills)),
              predict_success(weights, ListOf(threads[Predictor].skills)) }

====
